---- MODULE Spec2Model ----
(***************************************************************************)
(* Model of the smoker-temperature consumer of buzzline-03-valenti         *)
(* (src/consumers/csv_consumer_valenti.py): the consumer loop of main,     *)
(* process_message, check_for_temperature_change, detect_stall and the     *)
(* bounded deque they share; of the producer that feeds it                 *)
(* (src/producers/csv_producer_valenti.py); and of the author-counting     *)
(* JSON consumer (src/consumers/json_consumer_valenti.py).                 *)
(*                                                                         *)
(* Temperatures and thresholds are fixed-point numbers in tenths of a      *)
(* degree Fahrenheit (1002 stands for 100.2 F, a threshold of 5 for 0.5 F).*)
(* A Python value is a record [kind, val]: kind "none" is None, "num" a     *)
(* float, "str" a string.  A Kafka message is the JSON text it carries,    *)
(* described by its form and, for a JSON object, by its two fields.        *)
(***************************************************************************)
EXTENDS Integers, Sequences, FiniteSets, TLC

VARIABLES
    env,                    \* os.environ after load_dotenv(): the three settings
    window_size,            \* main's local window_size (the deque's maxlen)
    rolling_window,         \* main's deque, oldest element first
    previous_temperature,   \* main's local previous_temperature
    pc,                     \* where main is: "polling" or "closed"
    processed,              \* history: the messages handed to process_message
    outcomes,               \* history: what process_message did for each of them
    pushed,                 \* history: every value appended to the deque
    closes,                 \* history: how often main has called consumer.close()
    replica,                \* a second, freshly started consumer fed the same messages
    data_file,              \* producer: the rows of the CSV file
    generator,              \* producer: the state of the generate_messages generator
    producer,               \* producer: where its main is, what it sent and closed
    author_counts,          \* JSON consumer: the module's author_counts
    json_processed,         \* JSON consumer history: the messages processed
    json_main               \* JSON consumer: where its main is, and its close calls

consumerVars == <<env, window_size, rolling_window, previous_temperature, pc,
                  processed, outcomes, pushed, closes>>
replicaVars == <<replica>>
producerVars == <<data_file, generator, producer>>
jsonVars == <<author_counts, json_processed, json_main>>

vars == <<consumerVars, replicaVars, producerVars, jsonVars>>

----------------------------------------------------------------------------
(* Bounds of the model *)

MaxMsgs == 4
MaxWindowSize == 3

----------------------------------------------------------------------------
(* Python values *)

None == [kind |-> "none", val |-> 0]
Num(n) == [kind |-> "num", val |-> n]
Str == [kind |-> "str", val |-> 0]

\* JSON: a key that is not in the object, and the JSON literal null
Absent == [kind |-> "absent", val |-> 0]
JNull == [kind |-> "null", val |-> 0]

Temps == {1000, 1001, 1002, 1003}

\* The threshold settings tried: <<stall threshold, change threshold>>.  The
\* two thresholds are read by different functions and never meet.
Thresholds == {<<2, 1>>, <<5, 2>>}

\* The JSON texts the topic may carry.
ValidMessages ==
    {[form |-> "object", temperature |-> Num(t), timestamp |-> Str] : t \in Temps}

MalformedMessages ==
    { [form |-> "invalid", temperature |-> Absent, timestamp |-> Absent],
      [form |-> "array", temperature |-> Absent, timestamp |-> Absent],
      [form |-> "object", temperature |-> Absent, timestamp |-> Str],
      [form |-> "object", temperature |-> JNull, timestamp |-> Str],
      [form |-> "object", temperature |-> Str, timestamp |-> Str],
      [form |-> "object", temperature |-> Num(1000), timestamp |-> Absent] }

Messages == ValidMessages \cup MalformedMessages

----------------------------------------------------------------------------
(* Getters of the settings: each call reads the environment *)

get_stall_threshold == env.SMOKER_STALL_THRESHOLD_F
get_rolling_window_size == env.SMOKER_ROLLING_WINDOW_SIZE
get_temperature_change_threshold == env.TEMP_CHANGE_THRESHOLD_F

----------------------------------------------------------------------------
(* Python built-ins *)

abs(x) == IF x < 0 THEN -x ELSE x

\* max() and min() over a non-empty sequence of numbers, scanning left to
\* right and keeping the first extreme element, as the built-ins do.
RECURSIVE PyMaxFrom(_, _, _)
PyMaxFrom(d, i, best) ==
    IF i > Len(d) THEN best
    ELSE PyMaxFrom(d, i + 1, IF d[i].val > best THEN d[i].val ELSE best)

PyMax(d) == PyMaxFrom(d, 2, d[1].val)

RECURSIVE PyMinFrom(_, _, _)
PyMinFrom(d, i, best) ==
    IF i > Len(d) THEN best
    ELSE PyMinFrom(d, i + 1, IF d[i].val < best THEN d[i].val ELSE best)

PyMin(d) == PyMinFrom(d, 2, d[1].val)

AllNum(d) == \A i \in 1..Len(d) : d[i].kind = "num"

\* A deque that never evicts: append ignoring maxlen.
DequeAppend_NoEviction(d, x, maxlen) == Append(d, x)

\* A deque that evicts at the wrong end: when full, the new value is the one dropped.
DequeAppend_DropsNewest(d, x, maxlen) ==
    IF Len(d) + 1 > maxlen THEN d ELSE Append(d, x)

\* deque(maxlen=n).append(x): append on the right, drop from the left when
\* the deque is over its maxlen.
DequeAppend(d, x, maxlen) ==
    IF maxlen = 0 THEN d
    ELSE IF Len(d) + 1 > maxlen THEN Tail(Append(d, x))
    ELSE Append(d, x)

\* data.get(key, 0.0): a default value instead of None for a missing key.
DictGet_DefaultZero(data, key) ==
    IF data[key].kind = "absent" THEN Num(0)
    ELSE IF data[key].kind = "null" THEN None
    ELSE data[key]

\* dict.get(key): None for a missing key, and None for a JSON null
DictGet(data, key) ==
    IF data[key].kind \in {"absent", "null"} THEN None ELSE data[key]

----------------------------------------------------------------------------
(* Exceptions.  An operator that can raise returns a record whose field    *)
(* exc names the exception, "none" when it returned normally.              *)

NoExc == "none"

\* The classes under Exception that the body of process_message can raise.
ExceptionSubclasses == {"JSONDecodeError", "AttributeError", "TypeError", "ValueError"}

\* process_message with its first except clause only.
Handles_OnlyJSONDecodeError(e) == e = "JSONDecodeError"

\* The two except clauses of process_message: json.JSONDecodeError, then
\* Exception.
Handles(e) == e = "JSONDecodeError" \/ e \in ExceptionSubclasses

----------------------------------------------------------------------------
(* detect_stall(rolling_window_deque).  The deque is passed by reference:  *)
(* the field deque of the result is the deque as the call leaves it.       *)

\* detect_stall that waits for a non-empty window instead of a full one.
detect_stall_NoLengthCheck(rolling_window_deque) ==
    IF Len(rolling_window_deque) = 0
    THEN [ret |-> FALSE, exc |-> NoExc, deque |-> rolling_window_deque]
    ELSE IF ~AllNum(rolling_window_deque)
    THEN [ret |-> FALSE, exc |-> "TypeError", deque |-> rolling_window_deque]
    ELSE [ret |-> PyMax(rolling_window_deque) - PyMin(rolling_window_deque)
                    <= get_stall_threshold,
          exc |-> NoExc, deque |-> rolling_window_deque]

\* detect_stall comparing the range with < instead of <=.
detect_stall_StrictBound(rolling_window_deque) ==
    IF Len(rolling_window_deque) < get_rolling_window_size
    THEN [ret |-> FALSE, exc |-> NoExc, deque |-> rolling_window_deque]
    ELSE IF Len(rolling_window_deque) = 0
    THEN [ret |-> FALSE, exc |-> "ValueError", deque |-> rolling_window_deque]
    ELSE IF ~AllNum(rolling_window_deque)
    THEN [ret |-> FALSE, exc |-> "TypeError", deque |-> rolling_window_deque]
    ELSE [ret |-> PyMax(rolling_window_deque) - PyMin(rolling_window_deque)
                    < get_stall_threshold,
          exc |-> NoExc, deque |-> rolling_window_deque]

\* detect_stall that finds the range of a full window by popping its
\* elements, leaving the deque empty.
detect_stall_DrainsWindow(rolling_window_deque) ==
    IF Len(rolling_window_deque) < get_rolling_window_size
    THEN [ret |-> FALSE, exc |-> NoExc, deque |-> rolling_window_deque]
    ELSE IF Len(rolling_window_deque) = 0
    THEN [ret |-> FALSE, exc |-> "ValueError", deque |-> <<>>]
    ELSE IF ~AllNum(rolling_window_deque)
    THEN [ret |-> FALSE, exc |-> "TypeError", deque |-> <<>>]
    ELSE [ret |-> PyMax(rolling_window_deque) - PyMin(rolling_window_deque)
                    <= get_stall_threshold,
          exc |-> NoExc, deque |-> <<>>]

detect_stall(rolling_window_deque) ==
    LET WINDOW_SIZE == get_rolling_window_size IN
    IF Len(rolling_window_deque) < WINDOW_SIZE
    THEN [ret |-> FALSE, exc |-> NoExc, deque |-> rolling_window_deque]
    ELSE IF Len(rolling_window_deque) = 0
    THEN [ret |-> FALSE, exc |-> "ValueError",   \* max() of an empty deque
          deque |-> rolling_window_deque]
    ELSE IF ~AllNum(rolling_window_deque)
    THEN [ret |-> FALSE, exc |-> "TypeError",    \* str against float, or str - str
          deque |-> rolling_window_deque]
    ELSE LET temp_range == PyMax(rolling_window_deque) - PyMin(rolling_window_deque)
             is_stalled == temp_range <= get_stall_threshold
         IN  [ret |-> is_stalled, exc |-> NoExc, deque |-> rolling_window_deque]

----------------------------------------------------------------------------
(* check_for_temperature_change(temperature, previous_temperature):        *)
(* ret is the returned value, warned whether the "Significant temperature  *)
(* change detected" warning was logged, subtracted whether line 107        *)
(* (temperature - previous_temperature) was executed.                      *)

\* The function before the guard of lines 102-104 was added: it subtracts
\* whatever previous_temperature is.
check_for_temperature_change_NoGuard(temperature, prev) ==
    IF temperature.kind /= "num" \/ prev.kind /= "num"
    THEN [ret |-> None, warned |-> FALSE, exc |-> "TypeError", subtracted |-> TRUE]
    ELSE [ret |-> temperature,
          warned |-> abs(temperature.val - prev.val) > get_temperature_change_threshold,
          exc |-> NoExc, subtracted |-> TRUE]

check_for_temperature_change(temperature, prev) ==
    IF prev = None
    THEN [ret |-> temperature, warned |-> FALSE, exc |-> NoExc, subtracted |-> FALSE]
    ELSE IF temperature.kind /= "num" \/ prev.kind /= "num"
    THEN [ret |-> None, warned |-> FALSE, exc |-> "TypeError",  \* str - float
          subtracted |-> TRUE]
    ELSE LET temp_change_threshold == get_temperature_change_threshold
             change == abs(temperature.val - prev.val)
         IN  [ret |-> temperature,
              warned |-> change > temp_change_threshold,
              exc |-> NoExc, subtracted |-> TRUE]

----------------------------------------------------------------------------
(* process_message(message, rolling_window, window_size,                   *)
(* previous_temperature).  The result records the deque as the call leaves *)
(* it, the value of the function's local previous_temperature when it      *)
(* returns, what was logged, and the steps of lines 136-144 that ran, in   *)
(* the order they ran.                                                     *)

\* A call that has done nothing yet.
Outcome(window, prev) ==
    [window |-> window, previous |-> prev, appended |-> FALSE,
     change |-> FALSE, stalled |-> FALSE, invalid |-> FALSE,
     error |-> NoExc, propagated |-> NoExc,
     subtracted |-> FALSE, steps |-> <<>>, stall_saw_reading |-> FALSE]

\* An exception e raised in the try block of a call that got as far as o.
Raised(e, o) ==
    [o EXCEPT !.error = IF Handles(e) THEN e ELSE NoExc,
              !.propagated = IF Handles(e) THEN NoExc ELSE e]

\* Whether the deque d ends with the value x.
EndsWith(d, x) == Len(d) > 0 /\ d[Len(d)] = x

\* process_message with the stall check placed before the append.
process_message_StallBeforeAppend(message, window, maxlen, prev) ==
    IF message.form = "invalid"
    THEN Raised("JSONDecodeError", Outcome(window, prev))
    ELSE IF message.form /= "object"
    THEN Raised("AttributeError", Outcome(window, prev))
    ELSE
    LET temperature == DictGet(message, "temperature")
        timestamp == DictGet(message, "timestamp")
    IN
    IF temperature = None \/ timestamp = None
    THEN [Outcome(window, prev) EXCEPT !.invalid = TRUE]
    ELSE
    LET c == check_for_temperature_change(temperature, prev) IN
    IF c.exc /= NoExc
    THEN Raised(c.exc, [Outcome(window, prev) EXCEPT
                            !.subtracted = c.subtracted, !.steps = <<"change">>])
    ELSE
    LET s == detect_stall(window)
        o == [Outcome(s.deque, c.ret) EXCEPT
                 !.change = c.warned, !.subtracted = c.subtracted,
                 !.steps = <<"change", "stall">>,
                 !.stall_saw_reading = EndsWith(window, temperature)]
    IN
    IF s.exc /= NoExc
    THEN Raised(s.exc, o)
    ELSE [o EXCEPT !.window = DequeAppend(s.deque, temperature, maxlen),
                   !.appended = TRUE, !.stalled = s.ret,
                   !.steps = <<"change", "stall", "append">>]

\* process_message that empties the window once it has reported a stall,
\* so that a stall is reported once, when it begins.
process_message_ClearsOnStall(message, window, maxlen, prev) ==
    IF message.form = "invalid"
    THEN Raised("JSONDecodeError", Outcome(window, prev))
    ELSE IF message.form /= "object"
    THEN Raised("AttributeError", Outcome(window, prev))
    ELSE
    LET temperature == DictGet(message, "temperature")
        timestamp == DictGet(message, "timestamp")
    IN
    IF temperature = None \/ timestamp = None
    THEN [Outcome(window, prev) EXCEPT !.invalid = TRUE]
    ELSE
    LET c == check_for_temperature_change(temperature, prev) IN
    IF c.exc /= NoExc
    THEN Raised(c.exc, [Outcome(window, prev) EXCEPT
                            !.subtracted = c.subtracted, !.steps = <<"change">>])
    ELSE
    LET appended == DequeAppend(window, temperature, maxlen)
        s == detect_stall(appended)
        o == [Outcome(s.deque, c.ret) EXCEPT
                 !.appended = TRUE, !.change = c.warned,
                 !.subtracted = c.subtracted,
                 !.steps = <<"change", "append", "stall">>,
                 !.stall_saw_reading = EndsWith(appended, temperature)]
    IN
    IF s.exc /= NoExc
    THEN Raised(s.exc, o)
    ELSE [o EXCEPT !.stalled = s.ret,
                   !.window = IF s.ret THEN <<>> ELSE s.deque]

process_message(message, window, maxlen, prev) ==
    IF message.form = "invalid"
    THEN Raised("JSONDecodeError", Outcome(window, prev))        \* json.loads
    ELSE IF message.form /= "object"
    THEN Raised("AttributeError", Outcome(window, prev))         \* list.get
    ELSE
    LET temperature == DictGet(message, "temperature")
        timestamp == DictGet(message, "timestamp")
    IN
    IF temperature = None \/ timestamp = None
    THEN [Outcome(window, prev) EXCEPT !.invalid = TRUE]
    ELSE
    LET c == check_for_temperature_change(temperature, prev) IN
    IF c.exc /= NoExc
    THEN Raised(c.exc, [Outcome(window, prev) EXCEPT
                            !.subtracted = c.subtracted, !.steps = <<"change">>])
    ELSE
    LET appended == DequeAppend(window, temperature, maxlen)
        s == detect_stall(appended)
        o == [Outcome(s.deque, c.ret) EXCEPT
                 !.appended = TRUE, !.change = c.warned,
                 !.subtracted = c.subtracted,
                 !.steps = <<"change", "append", "stall">>,
                 !.stall_saw_reading = EndsWith(appended, temperature)]
    IN
    IF s.exc /= NoExc
    THEN Raised(s.exc, o)
    ELSE [o EXCEPT !.stalled = s.ret]

----------------------------------------------------------------------------
(* main *)

\* previous_temperature initialised to a numeric sentinel instead of None.
InitialPreviousTemperature_Zero == Num(0)

InitialPreviousTemperature == None

\* main keeps its own previous_temperature: process_message rebinds only its
\* parameter and returns None, and line 178 assigns nothing.
PreviousTemperatureAfter(r, prev) == prev

Environments ==
    {[SMOKER_ROLLING_WINDOW_SIZE |-> n,
      SMOKER_STALL_THRESHOLD_F |-> t[1],
      TEMP_CHANGE_THRESHOLD_F |-> t[2]] : n \in 1..MaxWindowSize, t \in Thresholds}

\* A rolling window kept in a module-level deque, which a later run of main
\* in the same place finds as the earlier run left it.
NewRollingWindow_Leftover(leftover) == leftover

\* The deque main creates at line 166.  leftover is the deque an earlier run
\* left behind: a new run does not see it.
NewRollingWindow(leftover) == <<>>

\* A consumer that has just reached its polling loop.
FreshConsumer(leftover) ==
    [pc |-> "polling",
     window |-> NewRollingWindow(leftover),
     previous |-> InitialPreviousTemperature,
     outcomes |-> <<>>]

\* The other programs of the repository, not started: the producer's
\* generator before its first next(), and the JSON consumer's empty counts.
AuthorKeys == {"Homer", "Lisa", "unknown", "null"}

GeneratorCreated ==
    [pc |-> "created", row |-> 0, last |-> 0, pending |-> FALSE,
     opened |-> FALSE, reopened |-> FALSE, value |-> None, exit_code |-> 0]

NoDataFile == [exists |-> FALSE, column |-> FALSE, cells |-> <<>>]

\* The CSV consumer not started, under the default settings of lines 53, 59
\* and 65 (a window of 5, 0.2 F and 5.0 F).
DefaultEnvironment ==
    [SMOKER_ROLLING_WINDOW_SIZE |-> 5, SMOKER_STALL_THRESHOLD_F |-> 2,
     TEMP_CHANGE_THRESHOLD_F |-> 50]

\* A finally clause that forgets the close.
Close_Skipped(n) == n

\* consumer.close() / producer.close() in the finally clause of main: the
\* number of close calls after it, n being the number before.
Close(n) == n + 1

ConsumerIdle ==
    /\ env = DefaultEnvironment
    /\ window_size = 0
    /\ rolling_window = <<>>
    /\ previous_temperature = InitialPreviousTemperature
    /\ pc = "absent"
    /\ processed = <<>>
    /\ outcomes = <<>>
    /\ pushed = <<>>
    /\ closes = 0

ReplicaIdle == replica = [FreshConsumer(<<>>) EXCEPT !.pc = "absent"]
\* The producer's main before it runs: no start-up step done, nothing sent,
\* nothing closed.
ProducerNotStarted ==
    [pc |-> "absent", steps |-> <<>>, sent |-> 0, closes |-> 0, exit_path |-> "none"]

ProducerIdle ==
    /\ data_file = NoDataFile
    /\ generator = GeneratorCreated
    /\ producer = ProducerNotStarted

JsonIdle ==
    /\ author_counts = [a \in AuthorKeys |-> 0]
    /\ json_processed = <<>>
    /\ json_main = [pc |-> "absent", closes |-> 0]

\* The CSV consumer when it enters its polling loop under environment e.
ConsumerPolling(e) ==
    /\ env = e
    /\ window_size = e.SMOKER_ROLLING_WINDOW_SIZE
    /\ rolling_window = NewRollingWindow(<<>>)
    /\ previous_temperature = InitialPreviousTemperature
    /\ pc = "polling"
    /\ processed = <<>>
    /\ outcomes = <<>>
    /\ pushed = <<>>
    /\ closes = 0

Init ==
    /\ \E e \in Environments : ConsumerPolling(e)
    /\ ReplicaIdle
    /\ ProducerIdle
    /\ JsonIdle

\* What the history keeps of a call of process_message: what was logged,
\* whether the deque was appended to and how long the call left it, and
\* the previous_temperature the call was given.
Logged(r, previous_in) ==
    [appended |-> r.appended, filled |-> Len(r.window), change |-> r.change,
     stalled |-> r.stalled, invalid |-> r.invalid, error |-> r.error,
     propagated |-> r.propagated, subtracted |-> r.subtracted,
     steps |-> r.steps, stall_saw_reading |-> r.stall_saw_reading,
     previous_in |-> previous_in]

\* One iteration of "for message in consumer": process_message on the next
\* message of the topic.
ConsumeMessage(message) ==
    /\ pc = "polling"
    /\ Len(processed) < MaxMsgs
    /\ \E r \in {process_message(message, rolling_window, window_size,
                                 previous_temperature)} :
           /\ rolling_window' = r.window
           /\ previous_temperature' = PreviousTemperatureAfter(r, previous_temperature)
           /\ pc' = IF r.propagated = NoExc THEN "polling" ELSE "closed"
           /\ closes' = IF r.propagated = NoExc THEN closes ELSE Close(closes)
           /\ processed' = Append(processed, message)
           /\ outcomes' = Append(outcomes, Logged(r, previous_temperature))
           /\ pushed' = IF r.appended
                        THEN Append(pushed, DictGet(message, "temperature"))
                        ELSE pushed
    /\ UNCHANGED <<env, window_size>>

\* Ctrl-C while polling: except KeyboardInterrupt, then finally.
KeyboardInterrupt ==
    /\ pc = "polling"
    /\ pc' = "closed"
    /\ closes' = Close(closes)
    /\ UNCHANGED <<env, window_size, rolling_window, previous_temperature,
                   processed, outcomes, pushed>>

Next ==
    \/ \E message \in Messages :
          ConsumeMessage(message) /\ UNCHANGED <<replicaVars, producerVars, jsonVars>>
    \/ KeyboardInterrupt /\ UNCHANGED <<replicaVars, producerVars, jsonVars>>

Spec == Init /\ [][Next]_vars

TypeOK ==
    /\ env \in Environments
    /\ window_size \in 1..MaxWindowSize
    /\ pc \in {"polling", "closed"}
    /\ Len(processed) <= MaxMsgs
    /\ Len(outcomes) = Len(processed)

----------------------------------------------------------------------------
(* Start-up of main under any configuration, valid or not (lines 155-173). *)

\* Settings the specification forbids: a window size <= 0 or a negative
\* threshold.
InvalidEnvironments ==
    { [SMOKER_ROLLING_WINDOW_SIZE |-> 0, SMOKER_STALL_THRESHOLD_F |-> 2,
       TEMP_CHANGE_THRESHOLD_F |-> 1],
      [SMOKER_ROLLING_WINDOW_SIZE |-> -1, SMOKER_STALL_THRESHOLD_F |-> 2,
       TEMP_CHANGE_THRESHOLD_F |-> 1],
      [SMOKER_ROLLING_WINDOW_SIZE |-> 2, SMOKER_STALL_THRESHOLD_F |-> -1,
       TEMP_CHANGE_THRESHOLD_F |-> 1],
      [SMOKER_ROLLING_WINDOW_SIZE |-> 2, SMOKER_STALL_THRESHOLD_F |-> 2,
       TEMP_CHANGE_THRESHOLD_F |-> -1] }

IsValidConfiguration(e) ==
    /\ e.SMOKER_ROLLING_WINDOW_SIZE > 0
    /\ e.SMOKER_STALL_THRESHOLD_F >= 0
    /\ e.TEMP_CHANGE_THRESHOLD_F >= 0

InitConfig ==
    /\ env \in Environments \cup InvalidEnvironments
    /\ window_size = 0
    /\ rolling_window = <<>>
    /\ previous_temperature = InitialPreviousTemperature
    /\ pc = "starting"
    /\ processed = <<>>
    /\ outcomes = <<>>
    /\ pushed = <<>>
    /\ closes = 0
    /\ ReplicaIdle
    /\ ProducerIdle
    /\ JsonIdle

\* main up to the polling loop: window_size is read once, the deque is
\* created with it (deque raises ValueError for a negative maxlen, outside
\* any try), previous_temperature is set and the consumer created.  Neither
\* threshold is read here.
Startup ==
    /\ pc = "starting"
    /\ window_size' = get_rolling_window_size
    /\ rolling_window' = <<>>
    /\ previous_temperature' = InitialPreviousTemperature
    /\ pc' = IF window_size' < 0 THEN "crashed" ELSE "polling"
    /\ UNCHANGED <<env, processed, outcomes, pushed, closes>>

NextConfig ==
    \/ Startup /\ UNCHANGED <<replicaVars, producerVars, jsonVars>>
    \/ \E message \in Messages :
          ConsumeMessage(message) /\ UNCHANGED <<replicaVars, producerVars, jsonVars>>
    \/ KeyboardInterrupt /\ UNCHANGED <<replicaVars, producerVars, jsonVars>>

SpecConfig == InitConfig /\ [][NextConfig]_vars

----------------------------------------------------------------------------
(* The consumer in a process whose environment is modified while it runs.  *)
(* The getters call os.getenv on every call (lines 53, 59, 65), so what    *)
(* detect_stall reads is the environment of that moment.                   *)

\* os.environ["SMOKER_ROLLING_WINDOW_SIZE"] is set to another value.  The
\* model follows one such change per run.
EnvironmentChanges ==
    /\ pc = "polling"
    /\ env.SMOKER_ROLLING_WINDOW_SIZE = window_size
    /\ \E n \in (1..MaxWindowSize) \ {window_size} :
          env' = [env EXCEPT !.SMOKER_ROLLING_WINDOW_SIZE = n]
    /\ UNCHANGED <<window_size, rolling_window, previous_temperature, pc,
                   processed, outcomes, pushed, closes>>

NextEnv ==
    \/ \E message \in Messages :
          ConsumeMessage(message) /\ UNCHANGED <<replicaVars, producerVars, jsonVars>>
    \/ KeyboardInterrupt /\ UNCHANGED <<replicaVars, producerVars, jsonVars>>
    \/ EnvironmentChanges /\ UNCHANGED <<replicaVars, producerVars, jsonVars>>

SpecEnv == Init /\ [][NextEnv]_vars

----------------------------------------------------------------------------
(* Replay: when the consumer has stopped, a second consumer is started     *)
(* with the same configuration and is fed the messages the first one got,  *)
(* in the same order.                                                      *)

ReplayMessages ==
    { [form |-> "object", temperature |-> Num(1000), timestamp |-> Str],
      [form |-> "object", temperature |-> Num(1003), timestamp |-> Str],
      [form |-> "object", temperature |-> Str, timestamp |-> Str],
      [form |-> "object", temperature |-> Absent, timestamp |-> Str],
      [form |-> "invalid", temperature |-> Absent, timestamp |-> Absent] }

\* main of the second consumer up to its polling loop (lines 155-173)
StartReplica ==
    /\ pc = "closed"
    /\ replica.pc = "absent"
    /\ replica' = FreshConsumer(rolling_window)
    /\ UNCHANGED <<consumerVars, producerVars, jsonVars>>

\* One iteration of the second consumer's loop, on the message the first
\* consumer got at the same position.
ReplicaConsume ==
    /\ replica.pc = "polling"
    /\ Len(replica.outcomes) < Len(processed)
    /\ \E r \in {process_message(processed[Len(replica.outcomes) + 1],
                                 replica.window, window_size, replica.previous)} :
          replica' = [pc |-> IF r.propagated = NoExc THEN "polling" ELSE "closed",
                      window |-> r.window,
                      previous |-> PreviousTemperatureAfter(r, replica.previous),
                      outcomes |-> Append(replica.outcomes,
                                          Logged(r, replica.previous))]
    /\ UNCHANGED <<consumerVars, producerVars, jsonVars>>

NextReplay ==
    \/ \E message \in ReplayMessages :
          ConsumeMessage(message) /\ UNCHANGED <<replicaVars, producerVars, jsonVars>>
    \/ KeyboardInterrupt /\ UNCHANGED <<replicaVars, producerVars, jsonVars>>
    \/ StartReplica
    \/ ReplicaConsume

SpecReplay == Init /\ [][NextReplay]_vars

----------------------------------------------------------------------------
(* The producer's generator generate_messages                              *)
(* (src/producers/csv_producer_valenti.py, lines 145-184).                 *)
(*                                                                         *)
(* data_file is the CSV file: whether it exists, whether its header has a  *)
(* temperature column, and the temperature cell of each data row.  The     *)
(* generator is at "created" before its first next(), at "open" at the top *)
(* of while True, at "reading" in the for loop having consumed row rows,   *)
(* at "yielded" when suspended at the yield, and at "exited" after         *)
(* sys.exit.  pending is an unanswered next() of main's for loop; last is  *)
(* the row of the message yielded last and value its temperature.  The     *)
(* timestamp and the random fact of a message are left out.                *)

MaxRows == 2

\* a cell that float() parses, and one it does not (text, or a short row)
Cells ==
    { [kind |-> "numeric", val |-> 1000], [kind |-> "numeric", val |-> 1001],
      [kind |-> "text", val |-> 0] }

DataFiles ==
    {NoDataFile}
    \cup {[exists |-> TRUE, column |-> c, cells |-> q] :
            c \in BOOLEAN, q \in UNION {[1..n -> Cells] : n \in 0..MaxRows}}

\* float(row["temperature"])
PyFloat(cell) ==
    IF cell.kind = "numeric"
    THEN [ret |-> Num(cell.val), exc |-> NoExc]
    ELSE [ret |-> None, exc |-> "ValueError"]

InitProducer ==
    /\ data_file \in DataFiles
    /\ generator = GeneratorCreated
    /\ producer = ProducerNotStarted
    /\ ConsumerIdle
    /\ ReplicaIdle
    /\ JsonIdle

\* main's for loop asks the generator for the next message (line 233).
RequestNext ==
    /\ generator.pc \in {"created", "yielded"}
    /\ generator' = [generator EXCEPT
                        !.pending = TRUE,
                        !.pc = IF generator.pc = "created" THEN "open" ELSE "reading"]
    /\ UNCHANGED data_file

\* Lines 155-161: the top of while True opens the file and reads its header;
\* a missing file is FileNotFoundError and sys.exit(1).
OpenFile ==
    /\ generator.pc = "open"
    /\ generator' =
         IF ~data_file.exists
         THEN [generator EXCEPT !.pc = "exited", !.exit_code = 1]
         ELSE [generator EXCEPT !.pc = "reading", !.row = 0,
                                !.opened = TRUE, !.reopened = generator.opened]
    /\ UNCHANGED data_file

\* A generator that is done after the last row: no while True.
AfterLastRow_Stop == "exited"

\* Where the generator goes when the for loop has no more rows: back to the
\* top of while True (line 155).
AfterLastRow == "open"

\* Lines 162-178, one row: the end of the rows, a row skipped for the
\* missing column, a cell that float() rejects (sys.exit(3) at line 184),
\* or a message yielded.
ReadRow ==
    /\ generator.pc = "reading"
    /\ generator' =
         IF generator.row = Len(data_file.cells)
         THEN [generator EXCEPT !.pc = AfterLastRow]
         ELSE LET i == generator.row + 1
                  f == PyFloat(data_file.cells[i])
              IN  IF ~data_file.column
                  THEN [generator EXCEPT !.row = i]
                  ELSE IF f.exc /= NoExc
                  THEN [generator EXCEPT !.row = i, !.pc = "exited", !.exit_code = 3]
                  ELSE [generator EXCEPT !.row = i, !.pc = "yielded",
                                         !.pending = FALSE, !.last = i,
                                         !.value = f.ret]
    /\ UNCHANGED data_file

NextProducer ==
    \/ RequestNext /\ UNCHANGED <<producer, consumerVars, replicaVars, jsonVars>>
    \/ OpenFile /\ UNCHANGED <<producer, consumerVars, replicaVars, jsonVars>>
    \/ ReadRow /\ UNCHANGED <<producer, consumerVars, replicaVars, jsonVars>>

\* Once next() is called the generator's code runs until it yields or exits.
SpecProducer ==
    /\ InitProducer
    /\ [][NextProducer]_vars
    /\ WF_vars(OpenFile /\ UNCHANGED <<producer, consumerVars, replicaVars, jsonVars>>)
    /\ WF_vars(ReadRow /\ UNCHANGED <<producer, consumerVars, replicaVars, jsonVars>>)

----------------------------------------------------------------------------
(* The JSON consumer (src/consumers/json_consumer_valenti.py).             *)
(*                                                                         *)
(* author_counts is the module-level defaultdict(int) of line 24, shown as *)
(* a function over AuthorKeys (a key never written reads 0, as in a        *)
(* defaultdict); the key "null" stands for Python's None.  json_processed  *)
(* is the stream of messages process_message has been called with.         *)

\* The author of a JSON object: a string, no author key, null, or a JSON
\* array (which json.loads turns into an unhashable list).
JsonAuthors ==
    {[kind |-> "str", name |-> a] : a \in {"Homer", "Lisa", "unknown"}}
    \cup {[kind |-> "absent", name |-> ""], [kind |-> "null", name |-> ""],
          [kind |-> "list", name |-> ""]}

JsonMessages ==
    {[kind |-> "invalid", author |-> [kind |-> "absent", name |-> ""]],
     [kind |-> "array", author |-> [kind |-> "absent", name |-> ""]]}
    \cup {[kind |-> "object", author |-> a] : a \in JsonAuthors}

\* message_dict.get("author", "unknown") (line 68)
GetAuthor(message) ==
    IF message.author.kind = "absent"
    THEN [kind |-> "str", name |-> "unknown"]
    ELSE message.author

\* hash(author): a list cannot be a dictionary key
IsHashable(author) == author.kind /= "list"

\* the dictionary key of a hashable author
KeyOf(author) == IF author.kind = "null" THEN "null" ELSE author.name

\* A process_message without the isinstance test, whose default author
\* also stands in for a message that is no object.
json_process_message_CountsNonObjects(message, counts) ==
    IF message.kind = "invalid"
    THEN [counts |-> counts, exc |-> "JSONDecodeError"]
    ELSE IF ~IsHashable(GetAuthor(message))
    THEN [counts |-> counts, exc |-> "TypeError"]
    ELSE [counts |-> [counts EXCEPT ![KeyOf(GetAuthor(message))] = @ + 1],
          exc |-> NoExc]

\* process_message (lines 54-86): the counts after the call, and the
\* exception its except clauses absorbed.
json_process_message(message, counts) ==
    IF message.kind = "invalid"
    THEN [counts |-> counts, exc |-> "JSONDecodeError"]       \* line 83
    ELSE IF message.kind /= "object"
    THEN [counts |-> counts, exc |-> NoExc]                   \* line 81
    ELSE LET author == GetAuthor(message)
         IN  IF ~IsHashable(author)
             THEN [counts |-> counts, exc |-> "TypeError"]    \* lines 72, 85
             ELSE [counts |-> [counts EXCEPT ![KeyOf(author)] = @ + 1],
                   exc |-> NoExc]

InitJson ==
    /\ author_counts = [a \in AuthorKeys |-> 0]
    /\ json_processed = <<>>
    /\ json_main = [pc |-> "polling", closes |-> 0]
    /\ ConsumerIdle
    /\ ReplicaIdle
    /\ ProducerIdle

\* One iteration of main's loop (lines 103-106).
JsonConsumeMessage(message) ==
    /\ json_main.pc = "polling"
    /\ Len(json_processed) < MaxMsgs
    /\ UNCHANGED json_main
    /\ author_counts' = json_process_message(message, author_counts).counts
    /\ json_processed' = Append(json_processed, message)

NextJson ==
    \E message \in JsonMessages :
        JsonConsumeMessage(message)
        /\ UNCHANGED <<consumerVars, replicaVars, producerVars>>

SpecJson == InitJson /\ [][NextJson]_vars

----------------------------------------------------------------------------
(* The main functions from start to exit: one script is run per process,   *)
(* the CSV consumer (csv_consumer_valenti.py, lines 155-185), the JSON     *)
(* consumer (json_consumer_valenti.py, lines 89-115) or the producer       *)
(* (csv_producer_valenti.py, lines 193-245).                               *)
(*                                                                         *)
(* producer.pc follows the producer's main: "start", "verified" after      *)
(* verify_services, "file_ok", "producer_ok", "loop" inside the for loop   *)
(* while the generator runs, "sending" with a yielded message in hand,     *)
(* "ended" when main has returned and "exited" when the process was ended  *)
(* by sys.exit or an exception.  producer.steps lists the start-up steps   *)
(* that succeeded, producer.sent counts the calls of producer.send that    *)
(* returned, producer.closes the calls of producer.close.  The functions   *)
(* of utils.utils_producer are outside these files: each is a step that    *)
(* either succeeds or fails the way main provides for.                     *)

ProducerStarted == [ProducerNotStarted EXCEPT !.pc = "start"]

AllStartupSteps == <<"data_file", "producer", "topic">>

\* the process ends before the loop: sys.exit or an exception outside try
ExitedAtStartup(path) == [producer EXCEPT !.pc = "exited", !.exit_path = path]

\* verify_services() (line 203)
VerifyServices(ok) ==
    /\ producer.pc = "start"
    /\ producer' = IF ok THEN [producer EXCEPT !.pc = "verified"]
                   ELSE ExitedAtStartup("verify_services")
    /\ UNCHANGED <<data_file, generator>>

\* if not DATA_FILE.exists(): sys.exit(1) (lines 210-212)
CheckDataFile ==
    /\ producer.pc = "verified"
    /\ producer' = IF data_file.exists
                   THEN [producer EXCEPT !.pc = "file_ok",
                                         !.steps = Append(@, "data_file")]
                   ELSE ExitedAtStartup("no_data_file")
    /\ UNCHANGED <<data_file, generator>>

\* A main without the "if not producer" test of line 218.
AfterCreateProducer_Unchecked(outcome) ==
    IF outcome = "raised" THEN ExitedAtStartup(outcome)
    ELSE [producer EXCEPT !.pc = "producer_ok",
                          !.steps = IF outcome = "created"
                                    THEN Append(@, "producer") ELSE @]

\* Lines 215-220: create_kafka_producer returned a producer, returned None
\* (sys.exit(3)), or raised.
AfterCreateProducer(outcome) ==
    IF outcome = "created"
    THEN [producer EXCEPT !.pc = "producer_ok", !.steps = Append(@, "producer")]
    ELSE ExitedAtStartup(outcome)

CreateProducer(outcome) ==
    /\ producer.pc = "file_ok"
    /\ producer' = AfterCreateProducer(outcome)
    /\ UNCHANGED <<data_file, generator>>

\* Lines 223-228: create_kafka_topic returned, or raised (sys.exit(1)); then
\* the for loop is entered.
CreateTopic(ok) ==
    /\ producer.pc = "producer_ok"
    /\ producer' = IF ok
                   THEN [producer EXCEPT !.pc = "loop", !.steps = Append(@, "topic")]
                   ELSE ExitedAtStartup("no_topic")
    /\ UNCHANGED <<data_file, generator>>

\* The finally clause of lines 241-243 on the way out of the loop, main
\* returning (pc "ended") or the process ending (pc "exited").
LeaveProducerLoop(to, path) ==
    [producer EXCEPT !.pc = to, !.closes = Close(@), !.exit_path = path]

\* main after a step of the generator: a yielded message is in hand, the
\* generator's sys.exit passes both except clauses as SystemExit, or the
\* generator is still running.
AfterGeneratorStep(g) ==
    IF g.pc = "yielded" THEN [producer EXCEPT !.pc = "sending"]
    ELSE IF g.pc = "exited" THEN LeaveProducerLoop("exited", "generator")
    ELSE producer

\* producer.send(topic, value=csv_message) (line 234), then the sleep; an
\* exception of send goes to line 239.
SendMessage(ok) ==
    /\ producer.pc = "sending"
    /\ producer.sent < MaxMsgs
    /\ producer' = IF ok THEN [producer EXCEPT !.pc = "loop", !.sent = @ + 1]
                   ELSE LeaveProducerLoop("ended", "exception")
    /\ UNCHANGED <<data_file, generator>>

\* Ctrl-C inside the try of line 232 (line 237).
ProducerKeyboardInterrupt ==
    /\ producer.pc \in {"loop", "sending"}
    /\ producer' = LeaveProducerLoop("ended", "interrupt")
    /\ UNCHANGED <<data_file, generator>>

\* The for loop of the CSV consumer is left: its end (the consumer's
\* iterator is exhausted), Ctrl-C (line 179) or an exception of the
\* iterator (line 181), all through the finally of line 183.
LeaveConsumerLoop ==
    /\ pc = "polling"
    /\ pc' = "closed"
    /\ closes' = Close(closes)
    /\ UNCHANGED <<env, window_size, rolling_window, previous_temperature,
                   processed, outcomes, pushed>>

\* The for loop of the JSON consumer is left: its end, Ctrl-C (line 107) or
\* an exception (line 109), all through the finally of line 111.
LeaveJsonLoop ==
    /\ json_main.pc = "polling"
    /\ json_main' = [pc |-> "closed", closes |-> Close(json_main.closes)]
    /\ UNCHANGED <<author_counts, json_processed>>

InitMain ==
    \/ Init
    \/ InitJson
    \/ /\ data_file \in DataFiles
       /\ generator = GeneratorCreated
       /\ producer = ProducerStarted
       /\ ConsumerIdle
       /\ ReplicaIdle
       /\ JsonIdle

NextMain ==
    \/ \E message \in ReplayMessages :
          ConsumeMessage(message) /\ UNCHANGED <<replicaVars, producerVars, jsonVars>>
    \/ LeaveConsumerLoop /\ UNCHANGED <<replicaVars, producerVars, jsonVars>>
    \/ \E message \in JsonMessages :
          JsonConsumeMessage(message)
          /\ UNCHANGED <<consumerVars, replicaVars, producerVars>>
    \/ LeaveJsonLoop /\ UNCHANGED <<consumerVars, replicaVars, producerVars>>
    \/ \E ok \in BOOLEAN :
          VerifyServices(ok) /\ UNCHANGED <<consumerVars, replicaVars, jsonVars>>
    \/ CheckDataFile /\ UNCHANGED <<consumerVars, replicaVars, jsonVars>>
    \/ \E outcome \in {"created", "none", "raised"} :
          CreateProducer(outcome) /\ UNCHANGED <<consumerVars, replicaVars, jsonVars>>
    \/ \E ok \in BOOLEAN :
          CreateTopic(ok) /\ UNCHANGED <<consumerVars, replicaVars, jsonVars>>
    \/ /\ producer.pc = "loop"
       /\ RequestNext
       /\ UNCHANGED <<producer, consumerVars, replicaVars, jsonVars>>
    \/ /\ producer.pc = "loop"
       /\ OpenFile
       /\ producer' = AfterGeneratorStep(generator')
       /\ UNCHANGED <<consumerVars, replicaVars, jsonVars>>
    \/ /\ producer.pc = "loop"
       /\ ReadRow
       /\ producer' = AfterGeneratorStep(generator')
       /\ UNCHANGED <<consumerVars, replicaVars, jsonVars>>
    \/ \E ok \in BOOLEAN :
          SendMessage(ok) /\ UNCHANGED <<consumerVars, replicaVars, jsonVars>>
    \/ ProducerKeyboardInterrupt /\ UNCHANGED <<consumerVars, replicaVars, jsonVars>>

SpecMain == InitMain /\ [][NextMain]_vars

----------------------------------------------------------------------------
(* Helpers for the properties *)

NProcessed == Len(processed)

IsValidReading(k) == processed[k] \in ValidMessages

TempOf(k) == processed[k].temperature.val

Min2(a, b) == IF a < b THEN a ELSE b

\* max - min <= tol, stated over all pairs of d
SpreadWithin(d, tol) ==
    \A i \in 1..Len(d) : \A j \in 1..Len(d) : d[i].val - d[j].val <= tol

\* The temperatures of the messages from..to of the stream
TempsOfStream(from, to) ==
    [i \in 1..(to - from + 1) |-> processed[from + i - 1].temperature]

----------------------------------------------------------------------------
(* C1: for two consecutive valid readings a then b, a significant-change   *)
(* warning is logged for b exactly when |b - a| > T_change, and after b    *)
(* the previous temperature kept for the next reading equals b.            *)

C1_ChangeIffDeltaExceedsThreshold ==
    (NProcessed >= 2 /\ IsValidReading(NProcessed - 1) /\ IsValidReading(NProcessed))
    => /\ outcomes[NProcessed].change
            = (abs(TempOf(NProcessed) - TempOf(NProcessed - 1))
                 > get_temperature_change_threshold)
       /\ previous_temperature = processed[NProcessed].temperature

(* C2: the previous value starts absent and, once a valid reading has been *)
(* processed, is present and equal to the most recently processed valid    *)
(* temperature.                                                            *)

C2_PreviousIsLastValidTemperature ==
    /\ NProcessed = 0 => previous_temperature = None
    /\ \A k \in 1..NProcessed :
         (IsValidReading(k) /\ \A j \in (k + 1)..NProcessed : ~IsValidReading(j))
         => previous_temperature = processed[k].temperature

(* C3: after k pushes into the window of capacity N >= 1 the window holds  *)
(* min(k, N) elements, never more than N, and they are the last min(k, N)  *)
(* pushed values in arrival order.                                         *)

C3_WindowIsLastNPushed ==
    LET k == Len(pushed)
        n == Len(rolling_window)
    IN  /\ n = Min2(k, window_size)
        /\ n <= window_size
        /\ \A i \in 1..n : rolling_window[i] = pushed[k - n + i]

C3_Witness ==
    /\ window_size >= 2
    /\ Len(pushed) > window_size
    /\ pushed[1] /= pushed[Len(pushed)]

(* C4: whenever the window holds fewer than N readings, detect_stall       *)
(* returns false, whatever the values in the window, and no stall is       *)
(* logged for the reading that left the window that short.                 *)

C4_NoStallBeforeWindowFull ==
    /\ Len(rolling_window) < get_rolling_window_size
       => /\ ~detect_stall(rolling_window).ret
          /\ detect_stall(rolling_window).exc = NoExc
    /\ \A k \in 1..NProcessed :
         outcomes[k].filled < get_rolling_window_size => ~outcomes[k].stalled

C4_Witness ==
    /\ window_size = 3
    /\ Len(rolling_window) = 2
    /\ AllNum(rolling_window)
    /\ SpreadWithin(rolling_window, get_stall_threshold)
    /\ outcomes[NProcessed].appended

(* C5: when the window holds exactly N readings, detect_stall returns true *)
(* if and only if max - min <= T_stall; a spread equal to T_stall counts   *)
(* as stalled.                                                             *)

C5_StallIffSpreadWithinTolerance ==
    (Len(rolling_window) = get_rolling_window_size /\ AllNum(rolling_window))
    => /\ detect_stall(rolling_window).exc = NoExc
       /\ detect_stall(rolling_window).ret
            = SpreadWithin(rolling_window, get_stall_threshold)
       /\ outcomes[NProcessed].appended
            => outcomes[NProcessed].stalled
                 = SpreadWithin(rolling_window, get_stall_threshold)

C5_Witness ==
    /\ Len(rolling_window) = get_rolling_window_size
    /\ Len(rolling_window) >= 2
    /\ AllNum(rolling_window)
    /\ PyMax(rolling_window) - PyMin(rolling_window) = get_stall_threshold
    /\ outcomes[NProcessed].appended
    /\ outcomes[NProcessed].stalled

(* C6: in a stream of valid readings the stall flag of the k-th reading is *)
(* true exactly when k >= N and the spread of the last N temperatures, the *)
(* k-th included, is <= T_stall.                                           *)

C6_StalledFlagOfKthReading ==
    (\A k \in 1..NProcessed : IsValidReading(k))
    => \A k \in 1..NProcessed :
         outcomes[k].stalled
           = /\ k >= window_size
             /\ SpreadWithin(TempsOfStream(k - window_size + 1, k),
                             get_stall_threshold)

\* N = 3, T_stall = 0.5, temperatures 100, 100.2, 100.1, 100.3
C6_Witness ==
    /\ window_size = 3
    /\ get_stall_threshold = 5
    /\ NProcessed = 4
    /\ \A k \in 1..4 : IsValidReading(k)
    /\ <<TempOf(1), TempOf(2), TempOf(3), TempOf(4)>> = <<1000, 1002, 1001, 1003>>
    /\ <<outcomes[1].stalled, outcomes[2].stalled,
         outcomes[3].stalled, outcomes[4].stalled>> = <<FALSE, FALSE, TRUE, TRUE>>

(* C7: the first reading processed by a fresh consumer never produces a    *)
(* significant-change warning, whatever its temperature and T_change.      *)

C7_FirstReadingNoChangeEvent ==
    \A k \in 1..NProcessed :
        (\A j \in 1..(k - 1) : ~IsValidReading(j)) => ~outcomes[k].change

C7_Witness ==
    /\ NProcessed >= 1
    /\ IsValidReading(1)
    /\ outcomes[1].appended
    /\ TempOf(1) > get_temperature_change_threshold

(* C8: processing a reading whose temperature or timestamp is missing or   *)
(* unparseable leaves the rolling window and the previous temperature as   *)
(* they were before the call.                                              *)

C8_MalformedLeavesStateUnchanged ==
    [][\A m \in MalformedMessages :
          ConsumeMessage(m) => UNCHANGED <<rolling_window, previous_temperature>>]_vars

(* C9: when a reading without temperature arrives between two valid        *)
(* readings a and b, a significant-change warning is logged for b exactly  *)
(* when |b - a| > T_change.                                                *)

C9_MalformedBetweenComparesAgainstLastValid ==
    (/\ NProcessed >= 3
     /\ IsValidReading(NProcessed - 2)
     /\ processed[NProcessed - 1].form = "object"
     /\ processed[NProcessed - 1].temperature = Absent
     /\ IsValidReading(NProcessed))
    => outcomes[NProcessed].change
         = (abs(TempOf(NProcessed) - TempOf(NProcessed - 2))
              > get_temperature_change_threshold)

(* C10: no exception propagates out of process_message, whatever the       *)
(* message is, and the consumer loop goes on to the next message.          *)

C10_NoExceptionPropagates ==
    [][\A m \in Messages :
          ConsumeMessage(m)
          => /\ outcomes'[Len(outcomes')].propagated = NoExc
             /\ pc' = "polling"]_vars

\* failures of each kind have been absorbed: invalid JSON, a JSON array,
\* a missing field, and a TypeError inside stall detection
C10_Witness ==
    /\ pc = "polling"
    /\ \E k \in 1..NProcessed : outcomes[k].error = "JSONDecodeError"
    /\ \E k \in 1..NProcessed : outcomes[k].error = "AttributeError"
    /\ \E k \in 1..NProcessed : outcomes[k].invalid
    /\ outcomes[NProcessed].error = "TypeError"

(* C11: an invalid configuration (window size <= 0, negative stall         *)
(* tolerance, negative change threshold) is rejected at set-up: the        *)
(* consumer never polls and no reading is processed under it.              *)

C11_InvalidConfigurationRejected ==
    ~IsValidConfiguration(env) => (pc /= "polling" /\ NProcessed = 0)

(* C12: the configuration is fixed for the run: the window size that       *)
(* detect_stall compares the window length against equals the capacity of  *)
(* the rolling window in every state, even if the environment changes      *)
(* between messages.                                                       *)

C12_StallWindowSizeIsDequeCapacity ==
    get_rolling_window_size = window_size

(* C13: change detection never executes temperature - previous while the   *)
(* previous value is absent: whenever the subtraction of line 107 ran, the *)
(* call had been given a present previous temperature.                     *)

C13_NoSubtractionFromAbsentPrevious ==
    \A k \in 1..NProcessed :
        outcomes[k].subtracted => outcomes[k].previous_in /= None

\* the guard has acted: the change check ran with an absent previous value
\* and returned without subtracting
C13_Witness ==
    /\ NProcessed >= 2
    /\ IsValidReading(NProcessed)
    /\ outcomes[NProcessed].steps /= <<>>
    /\ outcomes[NProcessed].previous_in = None
    /\ ~outcomes[NProcessed].subtracted
    /\ outcomes[NProcessed].error = NoExc

(* C14: replaying the same sequence of messages through two freshly        *)
(* started consumers with the same configuration yields the same outcomes, *)
(* message by message: the same change events, stalled flags and errors.   *)

RECURSIVE AppendedUpTo(_)
AppendedUpTo(k) ==
    IF k = 0 THEN <<>>
    ELSE IF outcomes[k].appended
         THEN Append(AppendedUpTo(k - 1), processed[k].temperature)
         ELSE AppendedUpTo(k - 1)

\* The last n elements of a sequence that has at least n.
LastN(q, n) == SubSeq(q, Len(q) - n + 1, Len(q))

(* C15: the stall signal is level-triggered: for every valid reading after *)
(* which the window is full (of numbers) with a spread <= T_stall, the     *)
(* stall is reported for that reading, whether or not it was reported for  *)
(* the reading before.                                                     *)

C15_StallReportedWhileConditionHolds ==
    \A k \in 1..NProcessed :
        LET a == AppendedUpTo(k) IN
        (/\ IsValidReading(k)
         /\ Len(a) >= window_size
         /\ AllNum(LastN(a, window_size))
         /\ SpreadWithin(LastN(a, window_size), get_stall_threshold))
        => outcomes[k].stalled

\* a stall reported for two readings in a row, and again after a reading
\* without temperature
C15_Witness ==
    /\ window_size >= 2
    /\ NProcessed = 4
    /\ outcomes[2].stalled
    /\ processed[3].temperature = Absent
    /\ outcomes[4].stalled

(* C17: for a valid reading process_message runs the change check, then    *)
(* the append, then the stall evaluation, none of them skipped, and the    *)
(* stall evaluation sees a window that already holds the reading.          *)

C17_StepsInFixedOrder ==
    \A k \in 1..NProcessed :
        IsValidReading(k)
        => /\ outcomes[k].steps = <<"change", "append", "stall">>
           /\ outcomes[k].appended
           /\ outcomes[k].stall_saw_reading

\* a valid reading that differs from the one before it has been processed
\* with the window full
C17_Witness ==
    /\ NProcessed >= 3
    /\ IsValidReading(NProcessed) /\ IsValidReading(NProcessed - 1)
    /\ TempOf(NProcessed) /= TempOf(NProcessed - 1)
    /\ outcomes[NProcessed].filled = window_size
    /\ outcomes[NProcessed].steps = <<"change", "append", "stall">>

(* C19: stall evaluation has no side effects: detect_stall leaves the      *)
(* contents, order and length of the rolling window as they were, so a     *)
(* reading that was appended is still the last element of the window when  *)
(* process_message returns.                                                *)

IsUndecodableOrLacksField(m) ==
    \/ m.form = "invalid"
    \/ m.form = "object" /\ (m.temperature = Absent \/ m.timestamp = Absent)

\* The stream without those messages.
StreamWithoutThem == SelectSeq(processed, LAMBDA m : ~IsUndecodableOrLacksField(m))

\* The stalled flags a freshly started consumer logs for the messages
\* i..Len(stream) of a stream, its deque and previous temperature being
\* window and prev when it gets the i-th.
RECURSIVE StalledFlagsFrom(_, _, _, _)
StalledFlagsFrom(stream, i, window, prev) ==
    IF i > Len(stream) THEN <<>>
    ELSE LET r == process_message(stream[i], window, window_size, prev)
         IN  <<r.stalled>> \o StalledFlagsFrom(stream, i + 1, r.window,
                                               PreviousTemperatureAfter(r, prev))

\* Of a sequence of flags, one per message of stream, those of the valid
\* readings.
RECURSIVE FlagsOfValidReadings(_, _, _)
FlagsOfValidReadings(stream, flags, i) ==
    IF i > Len(stream) THEN <<>>
    ELSE (IF stream[i] \in ValidMessages THEN <<flags[i]>> ELSE <<>>)
         \o FlagsOfValidReadings(stream, flags, i + 1)

(* C18: messages that fail JSON decoding or lack the temperature or        *)
(* timestamp field, inserted anywhere in a stream, do not change the       *)
(* stalled flags of the valid readings: they are the flags the stream      *)
(* without those messages produces.                                        *)

C18_InsertedMalformedKeepStalledFlags ==
    FlagsOfValidReadings(processed, [k \in 1..NProcessed |-> outcomes[k].stalled], 1)
    = FlagsOfValidReadings(
          StreamWithoutThem,
          StalledFlagsFrom(StreamWithoutThem, 1, NewRollingWindow(<<>>),
                           InitialPreviousTemperature),
          1)

\* a stall reported for a reading that follows two such messages
C18_Witness ==
    /\ window_size = 2
    /\ NProcessed = 4
    /\ IsValidReading(1)
    /\ processed[2].form = "invalid"
    /\ processed[3].form = "object" /\ processed[3].temperature = Absent
    /\ IsValidReading(4)
    /\ outcomes[4].stalled

\* A data file with a temperature column, at least one row, and a number
\* in every temperature cell.
NumericFile ==
    /\ data_file.exists
    /\ data_file.column
    /\ Len(data_file.cells) >= 1
    /\ \A i \in 1..Len(data_file.cells) : data_file.cells[i].kind = "numeric"

(* C16, as claimed: for a readable data file the generator answers every   *)
(* request for a next message and restarts from the first row instead of   *)
(* terminating; so it never ends with a request unanswered.                *)

C16_ReadableFileNeverTerminates ==
    (data_file.exists /\ generator.pending) => generator.pc /= "exited"

(* C16, amended: for a data file with a temperature column, at least one   *)
(* row and only numeric temperatures, every request for a next message is  *)
(* eventually answered with a message, the rows are yielded in file order, *)
(* and after the last row the generator goes on with the first.            *)

C16_NumericFileYieldsForever ==
    /\ [][(NumericFile /\ generator'.pc = "yielded" /\ generator.pc /= "yielded")
          => /\ generator'.last = (generator.last % Len(data_file.cells)) + 1
             /\ generator'.value = Num(data_file.cells[generator'.last].val)]_vars
    /\ (NumericFile /\ generator.pending)
          ~> (generator.pc = "yielded" /\ ~generator.pending)

\* the first row has been yielded again after the last
C16_Witness ==
    /\ NumericFile
    /\ Len(data_file.cells) = 2
    /\ data_file.cells[1] /= data_file.cells[2]
    /\ generator.reopened
    /\ generator.pc = "yielded"
    /\ generator.last = 1
    /\ generator.value = Num(data_file.cells[1].val)

\* the processed messages that decoded to a JSON object
ObjectMessages == SelectSeq(json_processed, LAMBDA m : m.kind = "object")

\* the processed object messages counted under key k
CountedUnder(k) ==
    SelectSeq(ObjectMessages,
              LAMBDA m : IsHashable(GetAuthor(m)) /\ KeyOf(GetAuthor(m)) = k)

RECURSIVE SumOver(_, _)
SumOver(f, keys) ==
    IF keys = {} THEN 0
    ELSE LET k == CHOOSE x \in keys : TRUE
         IN  f[k] + SumOver(f, keys \ {k})

(* C20, as claimed: every processed message that decoded to a JSON object  *)
(* has incremented exactly one count by exactly 1, so the counts add up    *)
(* to the number of such messages.                                         *)

C20_EveryObjectIncrementsOneCount ==
    SumOver(author_counts, AuthorKeys) = Len(ObjectMessages)

(* C20, amended: author_counts[a] is the number of processed messages that *)
(* decoded to a JSON object whose author is the hashable value a (a        *)
(* missing author counted under "unknown"); each such message increments   *)
(* exactly one count by exactly 1, counts never decrease, and a message    *)
(* that is invalid JSON, not a JSON object, or an object with an           *)
(* unhashable author leaves every count unchanged.                         *)

C20_CountsMatchHashableAuthors ==
    /\ [](\A k \in AuthorKeys : author_counts[k] = Len(CountedUnder(k)))
    /\ [][json_processed' /= json_processed =>
            LET m == json_processed'[Len(json_processed')]
            IN  /\ \A k \in AuthorKeys : author_counts'[k] >= author_counts[k]
                /\ IF m.kind = "object" /\ IsHashable(GetAuthor(m))
                   THEN /\ author_counts'[KeyOf(GetAuthor(m))]
                             = author_counts[KeyOf(GetAuthor(m))] + 1
                        /\ \A k \in AuthorKeys \ {KeyOf(GetAuthor(m))} :
                              author_counts'[k] = author_counts[k]
                   ELSE author_counts' = author_counts]_vars

\* a missing and an explicit "unknown" author share a count, null has its
\* own, and an array, an invalid message and a list author were passed over
C20_Witness ==
    /\ Len(json_processed) = MaxMsgs
    /\ author_counts["unknown"] = 2
    /\ author_counts["null"] = 1
    /\ \E i \in 1..Len(json_processed) : json_processed[i].kind = "object"
                                         /\ json_processed[i].author.kind = "absent"
    /\ \E i \in 1..Len(json_processed) : json_processed[i].kind /= "object"

\* the producer's for loop was entered and has been left
ProducerLoopLeft ==
    /\ producer.steps = AllStartupSteps
    /\ producer.pc \in {"ended", "exited"}

(* C21: a consumer or producer whose message loop was entered has made no  *)
(* close call while in the loop and exactly one once the loop is left, by  *)
(* whichever path (end of iteration, KeyboardInterrupt, another exception, *)
(* the generator's sys.exit); after the close no message is processed or   *)
(* sent.                                                                   *)

C21_ClosedExactlyOnce ==
    /\ [](/\ pc = "polling" => closes = 0
          /\ pc = "closed" => closes = 1
          /\ json_main.pc = "polling" => json_main.closes = 0
          /\ json_main.pc = "closed" => json_main.closes = 1
          /\ producer.pc \in {"loop", "sending"} => producer.closes = 0
          /\ ProducerLoopLeft => producer.closes = 1)
    /\ [][/\ closes > 0 => processed' = processed
          /\ json_main.closes > 0 => /\ json_processed' = json_processed
                                     /\ author_counts' = author_counts
          /\ producer.closes > 0 => producer'.sent = producer.sent]_vars

\* the generator's sys.exit(3) after a message was sent
C21_Witness ==
    /\ producer.pc = "exited"
    /\ producer.exit_path = "generator"
    /\ generator.pc = "exited"
    /\ producer.sent = 1
    /\ producer.closes = 1

\* s is an initial part of t
IsPrefix(s, t) == Len(s) <= Len(t) /\ \A i \in 1..Len(s) : s[i] = t[i]

(* C22: the start-up steps succeed in the order data file, Kafka producer, *)
(* topic; the loop is entered and a message sent only when all three have, *)
(* and after a failed step the process has exited with nothing sent.       *)

C22_NoSendWithoutStartup ==
    /\ IsPrefix(producer.steps, AllStartupSteps)
    /\ producer.sent > 0 => producer.steps = AllStartupSteps
    /\ producer.pc \in {"loop", "sending", "ended"}
          => producer.steps = AllStartupSteps
    /\ (producer.pc \notin {"absent", "start", "verified", "file_ok", "producer_ok"}
        /\ producer.steps /= AllStartupSteps)
          => producer.pc = "exited" /\ producer.sent = 0 /\ producer.closes = 0

\* two messages sent after the three steps
C22_Witness ==
    /\ producer.steps = AllStartupSteps
    /\ producer.sent = 2
    /\ producer.pc = "loop"
    /\ generator.last = 2

====
